---- MODULE Spec2Model ----
(***************************************************************************)
(* Stochastic solvers for entropic optimal transport (ot/stochastic.py):   *)
(* the semi-dual solvers SAG and ASGD with their orchestrator, and the     *)
(* batched dual SGD solver with its orchestrator.                          *)
(*                                                                         *)
(* Real numbers are fixed-point integers: the integer x stands for the     *)
(* real x / Scale.  Sums and differences are exact; products, quotients,   *)
(* exp, log and sqrt round to the nearest unit, as IEEE doubles round to   *)
(* the nearest representable value.  The floats inf, -inf and nan are the  *)
(* integers Inf, -Inf and NaN, far from every value a computation reaches, *)
(* and the operations treat them as IEEE arithmetic does.  Vectors are     *)
(* functions on 0..n-1 and matrices are vectors of rows, indexed as numpy  *)
(* indexes them.                                                           *)
(***************************************************************************)
EXTENDS Integers, Sequences, FiniteSets, TLC

\* One unit of the fixed-point representation is 1/Scale.
Scale == 10^3

\* ---------------------------------------------------------------------
\* Arithmetic
\* ---------------------------------------------------------------------

Abs(x) == IF x < 0 THEN -x ELSE x

\* x / y for integers, y > 0, rounded to the nearest integer.
RDivPos(x, y) == (2 * x + y) \div (2 * y)

\* x / y for integers, y # 0, rounded to the nearest integer.
RDiv(x, y) == IF y < 0 THEN RDivPos(-x, -y) ELSE RDivPos(x, y)

\* The product x * y of finite floats.
FiniteMul(x, y) == RDiv(x * y, Scale)

\* The quotient x / y of finite floats, y # 0.
FiniteDiv(x, y) == RDiv(x * Scale, y)

\* The float of the Python integer k.
Float(k) == k * Scale

\* F applied to the value of e: e is evaluated once, before F.
Eager(F(_), e) == CHOOSE y \in {F(x) : x \in {e}} : TRUE

\* The floats inf and nan.
Inf == 10^9

NaN == 2 * 10^9

IsNaN(x) == x = NaN

IsInf(x) == x = Inf \/ x = -Inf

\* The float -x.
Neg(x) == IF IsNaN(x) THEN NaN ELSE -x

\* The float sum of the pair xy: inf + -inf is nan.
AddOf(xy) ==
    LET x == xy[1]
        y == xy[2]
    IN  IF IsNaN(x) \/ IsNaN(y) THEN NaN
        ELSE IF IsInf(x) THEN (IF y = -x THEN NaN ELSE x)
        ELSE IF IsInf(y) THEN y
        ELSE x + y

\* The float sum x + y and the float difference x - y.
Add(x, y) == Eager(AddOf, <<x, y>>)

Sub(x, y) == Eager(AddOf, <<x, Neg(y)>>)

\* The float product of the pair xy: inf * 0 is nan.
MulOf(xy) ==
    LET x == xy[1]
        y == xy[2]
    IN  IF IsNaN(x) \/ IsNaN(y) THEN NaN
        ELSE IF IsInf(x) \/ IsInf(y)
        THEN (IF x = 0 \/ y = 0 THEN NaN
              ELSE IF (x > 0) = (y > 0) THEN Inf ELSE -Inf)
        ELSE FiniteMul(x, y)

\* The float product x * y.
Mul(x, y) == Eager(MulOf, <<x, y>>)

\* The numpy float quotient of the pair xy: x / 0 is inf, -inf or nan (with
\* a RuntimeWarning), inf / inf is nan.
DivOf(xy) ==
    LET x == xy[1]
        y == xy[2]
    IN  IF IsNaN(x) \/ IsNaN(y) THEN NaN
        ELSE IF IsInf(x)
        THEN (IF IsInf(y) THEN NaN ELSE IF y >= 0 THEN x ELSE -x)
        ELSE IF IsInf(y) THEN 0
        ELSE IF y = 0
        THEN (IF x = 0 THEN NaN ELSE IF x > 0 THEN Inf ELSE -Inf)
        ELSE FiniteDiv(x, y)

\* The numpy float quotient x / y.
Div(x, y) == Eager(DivOf, <<x, y>>)

\* Number of terms of the series below; the terms vanish well before.
SeriesTerms == 14

\* sum_{j >= n} f^j / j! given term = f^(n-1)/(n-1)!, for 0 <= f < Scale.
RECURSIVE ExpSeries(_, _, _)
ExpSeries(f, term, n) ==
    IF n > SeriesTerms \/ term = 0 THEN 0
    ELSE LET t == RDiv(term * f, n * Scale) IN t + ExpSeries(f, t, n + 1)

\* e^(f/Scale) for 0 <= f <= Scale.
ExpFrac(f) == Scale + ExpSeries(f, Scale, 1)

\* The float e.
Euler == ExpFrac(Scale)

\* v * e^n for an integer n.
RECURSIVE ScaleByE(_, _)
ScaleByE(v, n) ==
    IF n = 0 THEN v
    ELSE IF n > 0 THEN ScaleByE(FiniteMul(v, Euler), n - 1)
    ELSE ScaleByE(FiniteDiv(v, Euler), n + 1)

\* e^(x/Scale): the series on the fractional part of x/Scale, times e to the
\* integer part; exp(inf) is inf, exp(-inf) is 0.
ExpOf(x) ==
    IF IsNaN(x) THEN NaN
    ELSE IF x = Inf THEN Inf
    ELSE IF x = -Inf THEN 0
    ELSE LET n == x \div Scale
             f == x - n * Scale
         IN  ScaleByE(ExpFrac(f), n)

\* np.exp(x)
Exp(x) == Eager(ExpOf, x)

\* 2 * (z + z^3/3 + z^5/5 + ...) from the term z^j, j odd.
RECURSIVE AtanhSeries(_, _, _)
AtanhSeries(zz, pow, j) ==
    IF j > 2 * SeriesTerms \/ pow = 0 THEN 0
    ELSE RDiv(2 * pow, j) + AtanhSeries(zz, FiniteMul(pow, zz), j + 2)

\* 2 atanh(z)
TwiceAtanh(z) == AtanhSeries(FiniteMul(z, z), z, 1)

\* log(y) for Scale <= y < Euler, by log y = 2 atanh((y-1)/(y+1)).
LogFrac(y) == Eager(TwiceAtanh, FiniteDiv(y - Scale, y + Scale))

\* log(y) for a finite y > 0: y is brought into [1, e) by powers of e.
RECURSIVE LogOf(_)
LogOf(y) ==
    IF y >= Euler THEN Scale + LogOf(FiniteDiv(y, Euler))
    ELSE IF y < Scale THEN LogOf(FiniteMul(y, Euler)) - Scale
    ELSE LogFrac(y)

\* log(y) for any float: log(0) is -inf, log(inf) is inf, and the log of a
\* negative number is nan.
LogOfFloat(y) ==
    IF IsNaN(y) \/ y < 0 THEN NaN
    ELSE IF y = Inf THEN Inf
    ELSE IF y = 0 THEN -Inf
    ELSE LogOf(y)

\* np.log(y)
Log(y) == Eager(LogOfFloat, y)

\* floor(sqrt(v)) for an integer v > 0, by Newton's iteration from r >= sqrt(v).
RECURSIVE IsqrtFrom(_, _)
IsqrtFrom(v, r) ==
    Eager(LAMBDA nr : IF nr >= r THEN r ELSE IsqrtFrom(v, nr),
          (r + v \div r) \div 2)

\* floor(sqrt(v)) for an integer v >= 0.
Isqrt(v) == IF v = 0 THEN 0 ELSE IsqrtFrom(v, v)

\* The nearest integer to sqrt(v).
RoundedSqrt(v) ==
    LET r == Isqrt(v)
    IN  IF (r + 1) * (r + 1) - v <= v - r * r THEN r + 1 ELSE r

\* np.sqrt(x), x >= 0, rounded to the nearest unit.
Sqrt(x) == Eager(RoundedSqrt, x * Scale)

\* ---------------------------------------------------------------------
\* Arrays
\* ---------------------------------------------------------------------

\* The numpy vector with the entries of the sequence s, indexed from 0.
Vec(s) == [i \in 0 .. Len(s) - 1 |-> s[i + 1]]

\* len(v)
Size(v) == Cardinality(DOMAIN v)

\* np.zeros(n)
zeros(n) == [j \in 0 .. n - 1 |-> 0]

\* np.zeros((n, m))
zeros2(n, m) == [i \in 0 .. n - 1 |-> zeros(m)]

\* np.sum(v)
RECURSIVE SumTo(_, _)
SumTo(v, n) == IF n = 0 THEN 0 ELSE Add(SumTo(v, n - 1), v[n - 1])

Sum(v) == SumTo(v, Size(v))

\* max(v), v not empty and without nan
MaxOf(v) == CHOOSE x \in {v[j] : j \in DOMAIN v} : \A j \in DOMAIN v : v[j] <= x

\* np.min(v), v not empty: nan when an entry is nan
MinOf(v) ==
    IF \E j \in DOMAIN v : IsNaN(v[j]) THEN NaN
    ELSE CHOOSE x \in {v[j] : j \in DOMAIN v} : \A j \in DOMAIN v : x <= v[j]

\* The sum of the rows of the matrix T, whose rows have m entries.
RowSum(T, m) == [j \in 0 .. m - 1 |-> Sum([i \in DOMAIN T |-> T[i][j]])]

\* ---------------------------------------------------------------------
\* Semi-dual problem: pure functions
\* ---------------------------------------------------------------------

\* coordinate_grad_semi_dual(b, M, reg, beta, i)
coordinate_grad_semi_dual(b, M, reg, beta, i) ==
    LET r == [j \in DOMAIN beta |-> Sub(M[i][j], beta[j])]
        exp_beta == [j \in DOMAIN beta |-> Mul(Exp(Div(Neg(r[j]), reg)), b[j])]
        total == Sum(exp_beta)
        khi == [j \in DOMAIN beta |-> Div(exp_beta[j], total)]
    IN  [j \in DOMAIN beta |-> Sub(b[j], khi[j])]

\* lr_divisor with the smallest entry taken for the largest.
lr_divisor_min(a, reg) == MinOf([i \in DOMAIN a |-> Div(a[i], reg)])

\* The divisor max(a / reg) of the default learning rate.
lr_divisor(a, reg) == MaxOf([i \in DOMAIN a |-> Div(a[i], reg)])

\* Whether lr = 1. / max(a / reg) divides by zero.
lr_divides_by_zero(a, reg) == lr_divisor(a, reg) = 0

\* lr = 1. / max(a / reg): inf when the divisor is zero.
default_lr(a, reg) == Div(Float(1), lr_divisor(a, reg))

\* c_transform_entropic with exp_beta not weighted by b (line 326 without
\* its "* b").
c_transform_entropic_unweighted(b, M, reg, beta) ==
    [i \in DOMAIN M |->
        LET r == [j \in DOMAIN beta |-> Sub(M[i][j], beta[j])]
            min_r == MinOf(r)
            exp_beta == [j \in DOMAIN beta |->
                            Exp(Div(Neg(Sub(r[j], min_r)), reg))]
        IN  Sub(min_r, Mul(reg, Log(Sum(exp_beta))))]

\* c_transform_entropic(b, M, reg, beta)
c_transform_entropic(b, M, reg, beta) ==
    [i \in DOMAIN M |->
        LET r == [j \in DOMAIN beta |-> Sub(M[i][j], beta[j])]
            min_r == MinOf(r)
            exp_beta == [j \in DOMAIN beta |->
                            Mul(Exp(Div(Neg(Sub(r[j], min_r)), reg)), b[j])]
        IN  Sub(min_r, Mul(reg, Log(Sum(exp_beta))))]

\* pi = exp((alpha[:, None] + beta[None, :] - M) / reg) * a[:, None] * b[None, :]
plan(a, b, M, reg, alpha, beta) ==
    [i \in DOMAIN M |-> [j \in DOMAIN beta |->
        Mul(Mul(Exp(Div(Sub(Add(alpha[i], beta[j]), M[i][j]), reg)), a[i]), b[j])]]

\* sag_step with line 168 written as sum_stored_gradient += cur_coord_grad:
\* the gradient stored for i is not taken out of the sum.
sag_step_keeps_old(f, a, b, M, reg, i) ==
    LET n_source == Size(M)
        cur_coord_grad ==
            LET g == coordinate_grad_semi_dual(b, M, reg, f.cur_beta, i)
            IN  [j \in DOMAIN g |-> Mul(a[i], g[j])]
        new_sum == [j \in DOMAIN f.sum_stored_gradient |->
                       Add(f.sum_stored_gradient[j], cur_coord_grad[j])]
        step == Mul(f.lr, Div(Float(1), Float(n_source)))
    IN  [f EXCEPT !.sum_stored_gradient = new_sum,
                  !.stored_gradient = [@ EXCEPT ![i] = cur_coord_grad],
                  !.cur_beta = [j \in DOMAIN @ |-> Add(@[j], Mul(step, new_sum[j]))],
                  !.cur_iter = @ + 1]

\* One SAG iteration on the frame f with the sampled index i (lines 166-170).
sag_step(f, a, b, M, reg, i) ==
    LET n_source == Size(M)
        cur_coord_grad ==
            LET g == coordinate_grad_semi_dual(b, M, reg, f.cur_beta, i)
            IN  [j \in DOMAIN g |-> Mul(a[i], g[j])]
        new_sum == [j \in DOMAIN f.sum_stored_gradient |->
                       Add(f.sum_stored_gradient[j],
                           Sub(cur_coord_grad[j], f.stored_gradient[i][j]))]
        step == Mul(f.lr, Div(Float(1), Float(n_source)))
    IN  [f EXCEPT !.sum_stored_gradient = new_sum,
                  !.stored_gradient = [@ EXCEPT ![i] = cur_coord_grad],
                  !.cur_beta = [j \in DOMAIN @ |-> Add(@[j], Mul(step, new_sum[j]))],
                  !.cur_iter = @ + 1]

\* The running average of line 254 after the k-th iteration.
running_average(k, cur_beta, ave_beta) ==
    [j \in DOMAIN cur_beta |->
        Add(Mul(Div(Float(1), Float(k)), cur_beta[j]),
            Mul(Float(1) - Div(Float(1), Float(k)), ave_beta[j]))]

\* One ASGD iteration on the frame f with the sampled index i (lines 250-254).
asgd_step(f, b, M, reg, i) ==
    LET k == f.cur_iter + 1
        cur_coord_grad == coordinate_grad_semi_dual(b, M, reg, f.cur_beta, i)
        step == Div(f.lr, Sqrt(Float(k)))
        new_beta == [j \in DOMAIN f.cur_beta |->
                        Add(f.cur_beta[j], Mul(step, cur_coord_grad[j]))]
    IN  [f EXCEPT !.cur_beta = new_beta,
                  !.ave_beta = running_average(k, new_beta, @),
                  !.cur_iter = k]

\* ---------------------------------------------------------------------
\* Dual problem: pure functions
\* ---------------------------------------------------------------------

\* batch_grad_dual_alpha(M, reg, alpha, beta, batch_size, batch_alpha, batch_beta)
batch_grad_dual_alpha(M, reg, alpha, beta, batch_size, batch_alpha, batch_beta) ==
    [k \in 0 .. batch_size - 1 |->
        Float(batch_size)
            - Sum([t \in DOMAIN batch_beta |->
                      Exp(Div(alpha[batch_alpha[k]] + beta[batch_beta[t]]
                                  - M[batch_alpha[k]][batch_beta[t]], reg))])]

\* batch_grad_dual_beta(M, reg, alpha, beta, batch_size, batch_alpha, batch_beta)
batch_grad_dual_beta(M, reg, alpha, beta, batch_size, batch_alpha, batch_beta) ==
    [k \in 0 .. batch_size - 1 |->
        Float(batch_size)
            - Sum([t \in DOMAIN batch_alpha |->
                      Exp(Div(alpha[batch_alpha[t]] + beta[batch_beta[k]]
                                  - M[batch_alpha[t]][batch_beta[k]], reg))])]

\* fancy_add without the index: x += step * grad[0], every entry moved.
fancy_add_all(x, idx, step, grad) ==
    [i \in DOMAIN x |-> x[i] + Mul(step, grad[0])]

\* x[idx] += step * grad: numpy reads x[idx], adds, and stores the sums back
\* entry by entry, so an index listed twice keeps the last sum stored.
fancy_add(x, idx, step, grad) ==
    [i \in DOMAIN x |->
        IF \E k \in DOMAIN idx : idx[k] = i
        THEN LET last == CHOOSE k \in DOMAIN idx :
                             idx[k] = i /\ \A m \in DOMAIN idx : idx[m] = i => m <= k
             IN  x[i] + Mul(step, grad[last])
        ELSE x[i]]

\* lr / k with k = np.sqrt(cur_iter + 1) (lines 684, 690).
sgd_step_size(lr, cur_iter) == Div(lr, Sqrt(Float(cur_iter + 1)))

\* ---------------------------------------------------------------------
\* Strings
\* ---------------------------------------------------------------------

\* A string is the sequence of its characters. str.lower() of one character:
LowerChar(c) ==
    CASE c = "S" -> "s"
      [] c = "A" -> "a"
      [] c = "G" -> "g"
      [] c = "D" -> "d"
      [] OTHER -> c

\* method.lower().strip(): lower case, and the blanks at the end dropped.
RECURSIVE Strip(_)
Strip(str) ==
    IF str # <<>> /\ str[Len(str)] = " " THEN Strip(SubSeq(str, 1, Len(str) - 1))
    ELSE str

LowerStripped(str) == Strip([k \in DOMAIN str |-> LowerChar(str[k])])

\* method.lower()
Lower(str) == [k \in DOMAIN str |-> LowerChar(str[k])]

\* ---------------------------------------------------------------------
\* Inputs
\* ---------------------------------------------------------------------

\* Largest numItermax of a call.
MaxIter == 2

\* Number of calls a thread makes one after the other.
MaxCalls == 2

\* The threads of the process; each runs one solver call at a time.
Threads == {1, 2}

\* A 2 x 3 cost matrix and weights on its 2 sources and 3 targets.
CostSemi == Vec(<<Vec(<<0, Scale, 2 * Scale>>), Vec(<<Scale, 0, Scale>>)>>)

SourceWeights ==
    { Vec(<<Scale \div 2, Scale \div 2>>),
      Vec(<<Scale \div 4, 3 * (Scale \div 4)>>),
      Vec(<<0, Scale>>) }

TargetWeights == Vec(<<Scale \div 2, Scale \div 4, Scale \div 4>>)

\* The method strings tried: four spellings of the two solvers, four others.
Methods ==
    { <<"s", "a", "g">>, <<"S", "A", "G">>,
      <<"a", "s", "g", "d">>, <<"A", "s", "G", "d">>,
      <<"s", "g", "d">>, <<>>, <<"s", "a", "g", " ">>, <<"S", "A", "G", "A">> }

\* An optional argument is <<>> (None) or <<value>>.
None == <<>>

Some(v) == <<v>>

\* The arguments of a call of solve_semi_dual_entropic.
SemiArgs ==
    [ entry : {"solve_semi_dual_entropic"},
      a : SourceWeights, b : {TargetWeights}, M : {CostSemi}, reg : {Scale},
      method : Methods, numItermax : 0 .. MaxIter,
      lr : {None, Some(Scale)}, log : BOOLEAN,
      batch_size : {0}, alternate : {FALSE} ]

\* Largest batch_size of a call; the dual cost matrix is 2 x 2.
MaxBatch == 3

CostDual == Vec(<<Vec(<<0, Scale>>), Vec(<<Scale, 0>>)>>)

UniformDual == Vec(<<Scale \div 2, Scale \div 2>>)

\* The arguments of a call of solve_dual_entropic, which leaves alternate
\* at its default.
DualArgs ==
    [ entry : {"solve_dual_entropic"},
      a : {UniformDual}, b : {UniformDual}, M : {CostDual}, reg : {Scale},
      method : {<<>>}, numItermax : 0 .. MaxIter,
      lr : {Some(Scale \div 2)}, log : BOOLEAN,
      batch_size : 1 .. MaxBatch, alternate : {TRUE} ]

\* The arguments of a call of sgd_entropic_regularization.
SgdArgs ==
    [ entry : {"sgd_entropic_regularization"},
      a : {<<>>}, b : {<<>>}, M : {CostDual}, reg : {Scale},
      method : {<<>>}, numItermax : 0 .. MaxIter,
      lr : {Some(Scale \div 2)}, log : {FALSE},
      batch_size : 1 .. MaxBatch, alternate : BOOLEAN ]

NoArgs ==
    [ entry |-> "", a |-> <<>>, b |-> <<>>, M |-> <<>>, reg |-> 0,
      method |-> <<>>, numItermax |-> 0, lr |-> None, log |-> FALSE,
      batch_size |-> 0, alternate |-> FALSE ]

\* ---------------------------------------------------------------------
\* State
\* ---------------------------------------------------------------------

VARIABLES
    pc,       \* pc[p]: where thread p is in its call
    args,     \* args[p]: the arguments of thread p's call
    loc,      \* loc[p]: the local variables of the running function
    ret,      \* ret[p]: what the call returned or raised
    stdout,   \* the lines printed by the process
    calls,    \* calls[p]: number of calls thread p has made
    rng_pos,  \* number of draws made from the generator np.random
    draws,    \* draws[p]: the draws the call has received, with their positions
    trace,    \* trace[p]: the calls made by the orchestrator, in order
    obs       \* obs[p]: history of the call

vars == <<pc, args, loc, ret, stdout, calls, rng_pos, draws, trace, obs>>

\* The local variables of a function that has not assigned any.
NoFrame ==
    [ lr |-> 0, cur_iter |-> 0, cur_beta |-> <<>>, stored_gradient |-> <<>>,
      sum_stored_gradient |-> <<>>, ave_beta |-> <<>>, cur_alpha |-> <<>>,
      batch_alpha |-> <<>>, batch_beta |-> <<>>, grad_F_alpha |-> <<>>,
      grad_F_beta |-> <<>>, opt_alpha |-> <<>>, opt_beta |-> <<>> ]

\* History of a call: the values cur_beta took at the end of the iterations,
\* the number of updates of each dual variable, the dual variables at the
\* start of the iteration, and whether a float division by zero happened.
NoObs ==
    [ betas |-> <<>>, n_alpha |-> 0, n_beta |-> 0,
      pre_alpha |-> <<>>, pre_beta |-> <<>>, div_by_zero |-> FALSE ]

Pending == [kind |-> "pending", val |-> <<>>]

Returned(v) == [kind |-> "value", val |-> v]

ReturnedNone == [kind |-> "None", val |-> <<>>]

Raised(e) == [kind |-> e, val |-> <<>>]

Init ==
    /\ pc = [p \in Threads |-> "idle"]
    /\ args = [p \in Threads |-> NoArgs]
    /\ loc = [p \in Threads |-> NoFrame]
    /\ ret = [p \in Threads |-> Pending]
    /\ stdout = <<>>
    /\ calls = [p \in Threads |-> 0]
    /\ rng_pos = 0
    /\ draws = [p \in Threads |-> <<>>]
    /\ trace = [p \in Threads |-> <<>>]
    /\ obs = [p \in Threads |-> NoObs]

\* Thread p may start a call.
CanCall(p) == pc[p] = "idle"

\* The program that called goes on to its next call, holding the result of
\* the last one.
call_again(p) ==
    /\ pc[p] = "done"
    /\ calls[p] < MaxCalls
    /\ pc' = [pc EXCEPT ![p] = "idle"]
    /\ UNCHANGED <<args, loc, ret, stdout, calls, rng_pos, draws, trace, obs>>

\* ---------------------------------------------------------------------
\* Semi-dual solvers
\* ---------------------------------------------------------------------

\* lr after lines 157-158 (243-244).
learning_rate(A) == IF A.lr = None THEN default_lr(A.a, A.reg) ELSE A.lr[1]

\* The locals of sag_entropic_transport after lines 157-163.
sag_frame(A) ==
    [ NoFrame EXCEPT
        !.lr = learning_rate(A),
        !.cur_beta = zeros(Size(A.M[0])),
        !.stored_gradient = zeros2(Size(A.M), Size(A.M[0])),
        !.sum_stored_gradient = zeros(Size(A.M[0])) ]

\* The locals of averaged_sgd_entropic_transport after lines 243-248.
asgd_frame(A) ==
    [ NoFrame EXCEPT
        !.lr = learning_rate(A),
        !.cur_beta = zeros(Size(A.M[0])),
        !.ave_beta = zeros(Size(A.M[0])) ]

\* EnterSemiSolver with a warm start: cur_beta starts from the beta of the
\* log the thread's previous call returned, when there is one.
EnterSemiSolver_warm(p, A, frame, loop) ==
    /\ pc' = [pc EXCEPT ![p] = loop]
    /\ loc' = [loc EXCEPT ![p] =
           IF /\ args[p].entry = "solve_semi_dual_entropic"
              /\ args[p].log
              /\ ret[p].kind = "value"
           THEN [frame EXCEPT !.cur_beta = ret[p].val[2].beta]
           ELSE frame]
    /\ obs' = [obs EXCEPT ![p] = NoObs]

\* What the entry of a semi-dual solver does with the arguments A: the
\* locals are bound; a default learning rate that divides by zero is inf,
\* numpy warns, and the solver goes on.
EnterSemiSolver(p, A, frame, loop) ==
    /\ pc' = [pc EXCEPT ![p] = loop]
    /\ loc' = [loc EXCEPT ![p] = frame]
    /\ obs' = [obs EXCEPT ![p] =
           [NoObs EXCEPT !.div_by_zero =
               (A.lr = None /\ lr_divides_by_zero(A.a, A.reg))]]

\* A call of solve_semi_dual_entropic with arguments from Args: the dispatch
\* of lines 412-418 and, for a known method, the entry of the solver.
solve_semi_dual_entropic(p, Args) ==
    /\ CanCall(p)
    /\ \E A \in Args :
        /\ args' = [args EXCEPT ![p] = A]
        /\ calls' = [calls EXCEPT ![p] = @ + 1]
        /\ draws' = [draws EXCEPT ![p] = <<>>]
        /\ trace' = [trace EXCEPT ![p] = <<>>]
        /\ IF Lower(A.method) = <<"s", "a", "g">>
           THEN /\ EnterSemiSolver(p, A, sag_frame(A), "sag_loop")
                /\ ret' = [ret EXCEPT ![p] = Pending]
                /\ UNCHANGED stdout
           ELSE IF Lower(A.method) = <<"a", "s", "g", "d">>
           THEN /\ EnterSemiSolver(p, A, asgd_frame(A), "asgd_loop")
                /\ ret' = [ret EXCEPT ![p] = Pending]
                /\ UNCHANGED stdout
           ELSE /\ stdout' = Append(stdout, "Please, select your method between SAG and ASGD")
                /\ ret' = [ret EXCEPT ![p] = ReturnedNone]
                /\ pc' = [pc EXCEPT ![p] = "done"]
                /\ loc' = [loc EXCEPT ![p] = NoFrame]
                /\ obs' = [obs EXCEPT ![p] = NoObs]
    /\ UNCHANGED rng_pos

\* np.random.randint(n): the next draw of the generator, any of 0 .. n-1.
randint(n) == 0 .. n - 1

\* Thread p receives the value v as the generator's next draw.
Draw(p, v) ==
    /\ draws' = [draws EXCEPT ![p] = Append(@, [pos |-> rng_pos, val |-> v])]
    /\ rng_pos' = rng_pos + 1

\* sag_iteration with the arrays of the solver kept in module-level buffers:
\* every call that is in the loop sees the arrays the iteration wrote.
sag_iteration_shared(p) ==
    /\ pc[p] = "sag_loop"
    /\ loc[p].cur_iter < args[p].numItermax
    /\ \E i \in randint(Size(args[p].M)) :
        LET A == args[p]
            f == sag_step(loc[p], A.a, A.b, A.M, A.reg, i)
        IN  /\ Draw(p, i)
            /\ loc' = [q \in Threads |->
                   IF q = p THEN f
                   ELSE IF pc[q] = "sag_loop"
                        THEN [loc[q] EXCEPT
                                 !.cur_beta = f.cur_beta,
                                 !.stored_gradient = f.stored_gradient,
                                 !.sum_stored_gradient = f.sum_stored_gradient]
                        ELSE loc[q]]
            /\ obs' = [obs EXCEPT ![p].betas = Append(@, f.cur_beta),
                                  ![p].n_beta = @ + 1]
    /\ UNCHANGED <<pc, args, ret, stdout, calls, trace>>

\* One iteration of the loop of sag_entropic_transport (lines 164-170).
sag_iteration(p) ==
    /\ pc[p] = "sag_loop"
    /\ loc[p].cur_iter < args[p].numItermax
    /\ \E i \in randint(Size(args[p].M)) :
        LET A == args[p]
            f == sag_step(loc[p], A.a, A.b, A.M, A.reg, i)
        IN  /\ Draw(p, i)
            /\ loc' = [loc EXCEPT ![p] = f]
            /\ obs' = [obs EXCEPT ![p].betas = Append(@, f.cur_beta),
                                  ![p].n_beta = @ + 1]
    /\ UNCHANGED <<pc, args, ret, stdout, calls, trace>>

\* One iteration of the loop of averaged_sgd_entropic_transport (249-254).
asgd_iteration(p) ==
    /\ pc[p] = "asgd_loop"
    /\ loc[p].cur_iter < args[p].numItermax
    /\ \E i \in randint(Size(args[p].M)) :
        LET A == args[p]
            f == asgd_step(loc[p], A.b, A.M, A.reg, i)
        IN  /\ Draw(p, i)
            /\ loc' = [loc EXCEPT ![p] = f]
            /\ obs' = [obs EXCEPT ![p].betas = Append(@, f.cur_beta),
                                  ![p].n_beta = @ + 1]
    /\ UNCHANGED <<pc, args, ret, stdout, calls, trace>>

\* A semi-dual solver returns beta to line 413 (415): its locals go, and
\* the orchestrator's opt_beta is bound.
SolverReturns(p, fn, beta) ==
    /\ pc' = [pc EXCEPT ![p] = "semi_c_transform"]
    /\ loc' = [loc EXCEPT ![p] = [NoFrame EXCEPT !.opt_beta = beta]]
    /\ trace' = [trace EXCEPT ![p] = Append(@, [fn |-> fn, arg |-> <<>>, out |-> beta])]
    /\ UNCHANGED <<args, ret, stdout, calls, rng_pos, draws, obs>>

\* sag_return with an early exit: the loop may be left before its count.
sag_return_early(p) ==
    /\ pc[p] = "sag_loop"
    /\ SolverReturns(p, "sag_entropic_transport", loc[p].cur_beta)

\* The loop of sag_entropic_transport is over: return cur_beta (line 171).
sag_return(p) ==
    /\ pc[p] = "sag_loop"
    /\ ~(loc[p].cur_iter < args[p].numItermax)
    /\ SolverReturns(p, "sag_entropic_transport", loc[p].cur_beta)

\* asgd_return with the last iterate returned: return cur_beta.
asgd_return_last(p) ==
    /\ pc[p] = "asgd_loop"
    /\ ~(loc[p].cur_iter < args[p].numItermax)
    /\ SolverReturns(p, "averaged_sgd_entropic_transport", loc[p].cur_beta)

\* The loop of averaged_sgd_entropic_transport is over: return ave_beta (255).
asgd_return(p) ==
    /\ pc[p] = "asgd_loop"
    /\ ~(loc[p].cur_iter < args[p].numItermax)
    /\ SolverReturns(p, "averaged_sgd_entropic_transport", loc[p].ave_beta)

\* Line 420: opt_alpha = c_transform_entropic(b, M, reg, opt_beta).
semi_c_transform(p) ==
    /\ pc[p] = "semi_c_transform"
    /\ LET A == args[p]
           alpha == c_transform_entropic(A.b, A.M, A.reg, loc[p].opt_beta)
       IN  /\ loc' = [loc EXCEPT ![p].opt_alpha = alpha]
           /\ trace' = [trace EXCEPT ![p] =
                  Append(@, [fn |-> "c_transform_entropic",
                             arg |-> <<loc[p].opt_beta>>, out |-> alpha])]
    /\ pc' = [pc EXCEPT ![p] = "semi_plan"]
    /\ UNCHANGED <<args, ret, stdout, calls, rng_pos, draws, obs>>

\* plan_result with log['alpha'] and log['beta'] holding each other's vector.
plan_result_swapped(log, pi, alpha, beta) ==
    IF log THEN Returned(<<pi, [alpha |-> beta, beta |-> alpha]>>)
    ELSE Returned(pi)

\* What an orchestrator returns (lines 424-430, 794-800).
plan_result(log, pi, alpha, beta) ==
    IF log THEN Returned(<<pi, [alpha |-> alpha, beta |-> beta]>>)
    ELSE Returned(pi)

\* Lines 421-430: the plan is built and returned, with the log if asked.
semi_plan(p) ==
    /\ pc[p] = "semi_plan"
    /\ LET A == args[p]
           pi == plan(A.a, A.b, A.M, A.reg, loc[p].opt_alpha, loc[p].opt_beta)
       IN  /\ ret' = [ret EXCEPT ![p] =
                  plan_result(A.log, pi, loc[p].opt_alpha, loc[p].opt_beta)]
           /\ trace' = [trace EXCEPT ![p] =
                  Append(@, [fn |-> "plan",
                             arg |-> <<loc[p].opt_alpha, loc[p].opt_beta>>,
                             out |-> pi])]
    /\ pc' = [pc EXCEPT ![p] = "done"]
    /\ loc' = [loc EXCEPT ![p] = NoFrame]
    /\ UNCHANGED <<args, stdout, calls, rng_pos, draws, obs>>

\* ---------------------------------------------------------------------
\* Dual solver
\* ---------------------------------------------------------------------

\* np.random.randn(n): the next draw of the generator, a vector of n reals;
\* two vectors stand for the reals.
randn(n) ==
    { [j \in 0 .. n - 1 |-> 3 * (Scale \div 10) * (j + 1) - Scale \div 2],
      [j \in 0 .. n - 1 |-> 4 * (Scale \div 10) - 7 * (Scale \div 10) * j] }

\* choice with replace=True: any size indices, repeated or not.
choice_with_replacement(n, size) == [0 .. size - 1 -> 0 .. n - 1]

\* np.random.choice(n, size, replace=False): the next draw of the generator,
\* any arrangement of size distinct indices of 0 .. n-1; none when size > n,
\* where numpy raises ValueError.
choice(n, size) ==
    { s \in [0 .. size - 1 -> 0 .. n - 1] :
        \A k, m \in 0 .. size - 1 : s[k] = s[m] => k = m }

\* EnterSgd with the batch size validated at entry: a batch larger than
\* the number of indices is rejected before anything is drawn.
EnterSgd_checked(p, A) ==
    /\ args' = [args EXCEPT ![p] = A]
    /\ calls' = [calls EXCEPT ![p] = @ + 1]
    /\ draws' = [draws EXCEPT ![p] = <<>>]
    /\ trace' = [trace EXCEPT ![p] = <<>>]
    /\ loc' = [loc EXCEPT ![p] = NoFrame]
    /\ obs' = [obs EXCEPT ![p] = NoObs]
    /\ IF A.batch_size > Size(A.M) \/ A.batch_size > Size(A.M[0])
       THEN /\ pc' = [pc EXCEPT ![p] = "done"]
            /\ ret' = [ret EXCEPT ![p] = Raised("ValueError")]
       ELSE /\ pc' = [pc EXCEPT ![p] = "sgd_randn_alpha"]
            /\ ret' = [ret EXCEPT ![p] = Pending]
    /\ UNCHANGED <<stdout, rng_pos>>

\* The entry of the dual solver with arguments A: nothing is assigned
\* before line 680.
EnterSgd(p, A) ==
    /\ args' = [args EXCEPT ![p] = A]
    /\ calls' = [calls EXCEPT ![p] = @ + 1]
    /\ draws' = [draws EXCEPT ![p] = <<>>]
    /\ trace' = [trace EXCEPT ![p] = <<>>]
    /\ pc' = [pc EXCEPT ![p] = "sgd_randn_alpha"]
    /\ loc' = [loc EXCEPT ![p] = NoFrame]
    /\ obs' = [obs EXCEPT ![p] = NoObs]
    /\ ret' = [ret EXCEPT ![p] = Pending]
    /\ UNCHANGED <<stdout, rng_pos>>

\* A call of sgd_entropic_regularization with arguments from Args.
sgd_entropic_regularization(p, Args) ==
    /\ CanCall(p)
    /\ \E A \in Args : EnterSgd(p, A)

\* A call of solve_dual_entropic with arguments from Args: line 790 calls
\* the solver at once.
solve_dual_entropic(p, Args) ==
    /\ CanCall(p)
    /\ \E A \in Args : EnterSgd(p, A)

\* Line 680: cur_alpha = np.random.randn(n_source).
sgd_randn_alpha(p) ==
    /\ pc[p] = "sgd_randn_alpha"
    /\ \E v \in randn(Size(args[p].M)) :
        /\ Draw(p, v)
        /\ loc' = [loc EXCEPT ![p].cur_alpha = v]
    /\ pc' = [pc EXCEPT ![p] = "sgd_randn_beta"]
    /\ UNCHANGED <<args, ret, stdout, calls, trace, obs>>

\* Line 681: cur_beta = np.random.randn(n_target).
sgd_randn_beta(p) ==
    /\ pc[p] = "sgd_randn_beta"
    /\ \E v \in randn(Size(args[p].M[0])) :
        /\ Draw(p, v)
        /\ loc' = [loc EXCEPT ![p].cur_beta = v]
    /\ pc' = [pc EXCEPT ![p] = "sgd_loop"]
    /\ UNCHANGED <<args, ret, stdout, calls, trace, obs>>

\* np.random.choice raises: the exception leaves the solver and its caller.
RaiseValueError(p) ==
    /\ pc' = [pc EXCEPT ![p] = "done"]
    /\ ret' = [ret EXCEPT ![p] = Raised("ValueError")]
    /\ loc' = [loc EXCEPT ![p] = NoFrame]
    /\ UNCHANGED <<args, stdout, calls, rng_pos, draws, trace, obs>>

\* Line 685 (699): an iteration starts with the draw of batch_alpha.
sgd_choice_alpha(p) ==
    /\ pc[p] = "sgd_loop"
    /\ loc[p].cur_iter < args[p].numItermax
    /\ IF args[p].batch_size > Size(args[p].M)
       THEN RaiseValueError(p)
       ELSE /\ \E s \in choice(Size(args[p].M), args[p].batch_size) :
                /\ Draw(p, s)
                /\ loc' = [loc EXCEPT ![p].batch_alpha = s]
            /\ pc' = [pc EXCEPT ![p] = "sgd_choice_beta"]
            /\ obs' = [obs EXCEPT ![p].pre_alpha = loc[p].cur_alpha,
                                  ![p].pre_beta = loc[p].cur_beta]
            /\ UNCHANGED <<args, ret, stdout, calls, trace>>

\* Line 686 (700): the draw of batch_beta.
sgd_choice_beta(p) ==
    /\ pc[p] = "sgd_choice_beta"
    /\ IF args[p].batch_size > Size(args[p].M[0])
       THEN RaiseValueError(p)
       ELSE /\ \E s \in choice(Size(args[p].M[0]), args[p].batch_size) :
                /\ Draw(p, s)
                /\ loc' = [loc EXCEPT ![p].batch_beta = s]
            /\ pc' = [pc EXCEPT ![p] = "sgd_grad_alpha"]
            /\ UNCHANGED <<args, ret, stdout, calls, trace, obs>>

\* after_grad_alpha with both gradients computed first, whatever alternate is.
after_grad_alpha_joint(alternate) == "sgd_grad_beta"

\* The statement that follows each statement of an iteration: lines 687-694
\* when alternate, lines 701-708 otherwise.
after_grad_alpha(alternate) ==
    IF alternate THEN "sgd_update_alpha" ELSE "sgd_grad_beta"

after_update_alpha(alternate) ==
    IF alternate THEN "sgd_grad_beta" ELSE "sgd_update_beta"

after_grad_beta(alternate) ==
    IF alternate THEN "sgd_update_beta" ELSE "sgd_update_alpha"

\* Lines 687-689 (701-703): grad_F_alpha = batch_grad_dual_alpha(...).
sgd_grad_alpha(p) ==
    /\ pc[p] = "sgd_grad_alpha"
    /\ LET A == args[p]
           f == loc[p]
       IN  loc' = [loc EXCEPT ![p].grad_F_alpha =
                      batch_grad_dual_alpha(A.M, A.reg, f.cur_alpha, f.cur_beta,
                          A.batch_size, f.batch_alpha, f.batch_beta)]
    /\ pc' = [pc EXCEPT ![p] = after_grad_alpha(args[p].alternate)]
    /\ UNCHANGED <<args, ret, stdout, calls, rng_pos, draws, trace, obs>>

\* Line 690 (707): cur_alpha[batch_alpha] += (lr / k) * grad_F_alpha.
sgd_update_alpha(p) ==
    /\ pc[p] = "sgd_update_alpha"
    /\ LET f == loc[p]
       IN  loc' = [loc EXCEPT ![p].cur_alpha =
                      fancy_add(f.cur_alpha, f.batch_alpha,
                          sgd_step_size(args[p].lr[1], f.cur_iter), f.grad_F_alpha)]
    /\ obs' = [obs EXCEPT ![p].n_alpha = @ + 1]
    /\ pc' = [pc EXCEPT ![p] = after_update_alpha(args[p].alternate)]
    /\ UNCHANGED <<args, ret, stdout, calls, rng_pos, draws, trace>>

\* Lines 691-693 (704-706): grad_F_beta = batch_grad_dual_beta(...).
sgd_grad_beta(p) ==
    /\ pc[p] = "sgd_grad_beta"
    /\ LET A == args[p]
           f == loc[p]
       IN  loc' = [loc EXCEPT ![p].grad_F_beta =
                      batch_grad_dual_beta(A.M, A.reg, f.cur_alpha, f.cur_beta,
                          A.batch_size, f.batch_alpha, f.batch_beta)]
    /\ pc' = [pc EXCEPT ![p] = after_grad_beta(args[p].alternate)]
    /\ UNCHANGED <<args, ret, stdout, calls, rng_pos, draws, trace, obs>>

\* Line 694 (708): cur_beta[batch_beta] += (lr / k) * grad_F_beta, the last
\* statement of the iteration.
sgd_update_beta(p) ==
    /\ pc[p] = "sgd_update_beta"
    /\ LET f == loc[p]
       IN  loc' = [loc EXCEPT
                      ![p].cur_beta =
                          fancy_add(f.cur_beta, f.batch_beta,
                              sgd_step_size(args[p].lr[1], f.cur_iter), f.grad_F_beta),
                      ![p].cur_iter = @ + 1]
    /\ obs' = [obs EXCEPT ![p].n_beta = @ + 1]
    /\ pc' = [pc EXCEPT ![p] = "sgd_loop"]
    /\ UNCHANGED <<args, ret, stdout, calls, rng_pos, draws, trace>>

\* Line 710: return cur_alpha, cur_beta, to the caller of the solver or to
\* line 790 of solve_dual_entropic.
sgd_return(p) ==
    /\ pc[p] = "sgd_loop"
    /\ ~(loc[p].cur_iter < args[p].numItermax)
    /\ IF args[p].entry = "solve_dual_entropic"
       THEN /\ pc' = [pc EXCEPT ![p] = "dual_plan"]
            /\ loc' = [loc EXCEPT ![p] =
                   [NoFrame EXCEPT !.opt_alpha = loc[p].cur_alpha,
                                   !.opt_beta = loc[p].cur_beta]]
            /\ UNCHANGED ret
       ELSE /\ pc' = [pc EXCEPT ![p] = "done"]
            /\ loc' = [loc EXCEPT ![p] = NoFrame]
            /\ ret' = [ret EXCEPT ![p] =
                   Returned(<<loc[p].cur_alpha, loc[p].cur_beta>>)]
    /\ trace' = [trace EXCEPT ![p] =
           Append(@, [fn |-> "sgd_entropic_regularization", arg |-> <<>>,
                      out |-> <<loc[p].cur_alpha, loc[p].cur_beta>>])]
    /\ UNCHANGED <<args, stdout, calls, rng_pos, draws, obs>>

\* Lines 792-800: the plan is built and returned, with the log if asked.
dual_plan(p) ==
    /\ pc[p] = "dual_plan"
    /\ LET A == args[p]
           pi == plan(A.a, A.b, A.M, A.reg, loc[p].opt_alpha, loc[p].opt_beta)
       IN  /\ ret' = [ret EXCEPT ![p] =
                  plan_result(A.log, pi, loc[p].opt_alpha, loc[p].opt_beta)]
           /\ trace' = [trace EXCEPT ![p] =
                  Append(@, [fn |-> "plan",
                             arg |-> <<loc[p].opt_alpha, loc[p].opt_beta>>,
                             out |-> pi])]
    /\ pc' = [pc EXCEPT ![p] = "done"]
    /\ loc' = [loc EXCEPT ![p] = NoFrame]
    /\ UNCHANGED <<args, stdout, calls, rng_pos, draws, obs>>

\* ---------------------------------------------------------------------
\* Specifications
\* ---------------------------------------------------------------------

\* The steps of a call of thread p after its entry.
Step(p) ==
    \/ sag_iteration(p)
    \/ sag_return(p)
    \/ asgd_iteration(p)
    \/ asgd_return(p)
    \/ semi_c_transform(p)
    \/ semi_plan(p)
    \/ sgd_randn_alpha(p)
    \/ sgd_randn_beta(p)
    \/ sgd_choice_alpha(p)
    \/ sgd_choice_beta(p)
    \/ sgd_grad_alpha(p)
    \/ sgd_update_alpha(p)
    \/ sgd_grad_beta(p)
    \/ sgd_update_beta(p)
    \/ sgd_return(p)
    \/ dual_plan(p)

\* One call of any entry point with any of the arguments, on thread 1.
Next ==
    \/ solve_semi_dual_entropic(1, SemiArgs)
    \/ solve_dual_entropic(1, DualArgs)
    \/ sgd_entropic_regularization(1, SgdArgs)
    \/ Step(1)

Spec == Init /\ [][Next]_vars

\* The calls of the specification of the loops: each solver with every
\* numItermax, the dual solver with every batch size and both variants.
LoopSemiArgs ==
    { A \in SemiArgs :
        /\ A.method \in {<<"s", "a", "g">>, <<"a", "s", "g", "d">>}
        /\ A.a = Vec(<<Scale \div 4, 3 * (Scale \div 4)>>)
        /\ A.lr = None
        /\ ~A.log }

LoopDualArgs == { A \in DualArgs : A.log /\ A.batch_size = 1 }

LoopNext ==
    \/ solve_semi_dual_entropic(1, LoopSemiArgs)
    \/ solve_dual_entropic(1, LoopDualArgs)
    \/ sgd_entropic_regularization(1, SgdArgs)
    \/ Step(1)

\* A call that is under way keeps executing: the solvers are synchronous
\* loops without a wait.
LoopSpec == Init /\ [][LoopNext]_vars /\ WF_vars(Step(1))

\* The calls of a program that calls the entry points one after the other.
SeqSemiArgs ==
    { A \in SemiArgs :
        /\ A.method \in {<<"s", "a", "g">>, <<"a", "s", "g", "d">>}
        /\ A.a = Vec(<<Scale \div 4, 3 * (Scale \div 4)>>)
        /\ A.lr = None
        /\ A.log }

SeqDualArgs ==
    { A \in DualArgs : ~A.log /\ A.batch_size = 1 /\ A.numItermax = 0 }

SeqSgdArgs == { A \in SgdArgs : A.batch_size = 2 /\ A.numItermax = 1 }

SeqNext ==
    \/ solve_semi_dual_entropic(1, SeqSemiArgs)
    \/ solve_dual_entropic(1, SeqDualArgs)
    \/ sgd_entropic_regularization(1, SeqSgdArgs)
    \/ Step(1)
    \/ call_again(1)

\* Up to MaxCalls calls in sequence on one thread, the generator never
\* reseeded in between.
SeqSpec == Init /\ [][SeqNext]_vars

\* The calls of two threads that run at the same time.
ConcSemiArgs == { A \in SeqSemiArgs : A.numItermax = 2 }

ConcDualArgs ==
    { A \in DualArgs : ~A.log /\ A.batch_size = 1 /\ A.numItermax = 1 }

ConcNext ==
    \/ \E p \in Threads : solve_semi_dual_entropic(p, ConcSemiArgs)
    \/ solve_dual_entropic(2, ConcDualArgs)
    \/ \E p \in Threads : Step(p)

\* One call per thread, the statements of the two calls interleaved in any
\* order.
ConcSpec == Init /\ [][ConcNext]_vars

\* The calls of the specification of the default learning rate: the valid
\* source weights and the vector of zeros, with and without lr.
RateSemiArgs ==
    [ entry : {"solve_semi_dual_entropic"},
      a : SourceWeights \cup {zeros(Size(CostSemi))},
      b : {TargetWeights}, M : {CostSemi}, reg : {Scale},
      method : {<<"s", "a", "g">>, <<"a", "s", "g", "d">>},
      numItermax : 0 .. MaxIter,
      lr : {None, Some(Scale)}, log : BOOLEAN,
      batch_size : {0}, alternate : {FALSE} ]

RateNext ==
    \/ solve_semi_dual_entropic(1, RateSemiArgs)
    \/ solve_dual_entropic(1, SeqDualArgs)
    \/ sgd_entropic_regularization(1, SeqSgdArgs)
    \/ Step(1)

RateSpec == Init /\ [][RateNext]_vars

\* ---------------------------------------------------------------------
\* Properties
\* ---------------------------------------------------------------------

n_source(p) == Size(args[p].M)

n_target(p) == Size(args[p].M[0])

\* C1: in sag_entropic_transport, before the first iteration and after every
\* iteration, whatever indices were sampled, sum_stored_gradient is the sum
\* of the rows of stored_gradient.
C1_GradientTableSum ==
    \A p \in Threads :
        pc[p] = "sag_loop" =>
            loc[p].sum_stored_gradient
                = RowSum(loc[p].stored_gradient, n_target(p))

\* C1 witness: two iterations have sampled the same source index, so that a
\* stored row which was not zero has been replaced.
C1_Witness ==
    /\ pc[1] = "sag_loop"
    /\ loc[1].cur_iter = 2
    /\ draws[1][1].val = draws[1][2].val
    /\ loc[1].stored_gradient[draws[1][1].val] # zeros(n_target(1))
    /\ loc[1].sum_stored_gradient # zeros(n_target(1))

\* The spellings of a word in lower and upper case.
Spellings(lower, upper) ==
    { s \in [DOMAIN lower -> {lower[k] : k \in DOMAIN lower}
                                 \cup {upper[k] : k \in DOMAIN upper}] :
        \A k \in DOMAIN lower : s[k] \in {lower[k], upper[k]} }

SagSpellings == Spellings(<<"s", "a", "g">>, <<"S", "A", "G">>)

AsgdSpellings == Spellings(<<"a", "s", "g", "d">>, <<"A", "S", "G", "D">>)

PrintedLine == "Please, select your method between SAG and ASGD"

InSemiCall(p) == args[p].entry = "solve_semi_dual_entropic" /\ pc[p] # "idle"

\* C2: a call of solve_semi_dual_entropic whose method is no spelling of
\* "sag" or "asgd" prints the diagnostic and returns None, whatever log is:
\* it does not raise, draws nothing, runs no iteration, calls neither a
\* solver nor the c-transform and builds no plan.
C2_UnknownMethodReturnsNone ==
    \A p \in Threads :
        (InSemiCall(p) /\ args[p].method \notin SagSpellings \cup AsgdSpellings) =>
            /\ pc[p] = "done"
            /\ ret[p] = ReturnedNone
            /\ stdout # <<>> /\ stdout[Len(stdout)] = PrintedLine
            /\ trace[p] = <<>>
            /\ draws[p] = <<>>
            /\ obs[p].n_beta = 0 /\ obs[p].betas = <<>>
            /\ loc[p] = NoFrame

\* C2 witness: a call with log set and the method "sag " has returned.
C2_Witness ==
    /\ InSemiCall(1)
    /\ args[1].method = <<"s", "a", "g", " ">>
    /\ args[1].log
    /\ args[1].numItermax > 0
    /\ ret[1] = ReturnedNone

\* The solver a method names.
SolverOf(method) ==
    IF method \in SagSpellings THEN "sag_entropic_transport"
    ELSE "averaged_sgd_entropic_transport"

\* The places of a call that runs the solver fn.
PlacesOf(fn) ==
    {IF fn = "sag_entropic_transport" THEN "sag_loop" ELSE "asgd_loop",
     "semi_c_transform", "semi_plan", "done"}

\* C3: a call of solve_semi_dual_entropic whose method is a spelling of "sag"
\* (of "asgd") runs the SAG (ASGD) solver and no other, then applies the
\* c-transform to the beta that solver returned, then builds the plan from
\* that alpha and that beta; it returns the plan alone when log is false, and
\* the plan with a mapping of exactly alpha and beta when log is true.
C3_SemiDualPipeline ==
    \A p \in Threads :
        (InSemiCall(p) /\ args[p].method \in SagSpellings \cup AsgdSpellings) =>
            LET A == args[p]
                t == trace[p]
            IN  /\ pc[p] \in PlacesOf(SolverOf(A.method))
                /\ Len(t) = CASE pc[p] = "semi_c_transform" -> 1
                              [] pc[p] = "semi_plan" -> 2
                              [] pc[p] = "done" -> 3
                              [] OTHER -> 0
                /\ Len(t) >= 1 =>
                    /\ t[1].fn = SolverOf(A.method)
                    /\ obs[p].n_beta = A.numItermax
                /\ Len(t) >= 2 =>
                    /\ t[2].fn = "c_transform_entropic"
                    /\ t[2].arg = <<t[1].out>>
                    /\ t[2].out = c_transform_entropic(A.b, A.M, A.reg, t[1].out)
                /\ Len(t) >= 3 =>
                    /\ t[3].fn = "plan"
                    /\ t[3].arg = <<t[2].out, t[1].out>>
                    /\ t[3].out = plan(A.a, A.b, A.M, A.reg, t[2].out, t[1].out)
                    /\ ret[p].kind = "value"
                    /\ IF A.log
                       THEN /\ ret[p].val[1] = t[3].out
                            /\ DOMAIN ret[p].val[2] = {"alpha", "beta"}
                            /\ ret[p].val[2].alpha = t[2].out
                            /\ ret[p].val[2].beta = t[1].out
                       ELSE ret[p].val = t[3].out

\* C3 witness: a call with method "AsGd" and log set has returned after two
\* iterations.
C3_Witness ==
    /\ InSemiCall(1)
    /\ args[1].method = <<"A", "s", "G", "d">>
    /\ args[1].log
    /\ obs[1].n_beta = 2
    /\ pc[1] = "done"
    /\ ret[1].kind = "value"
    /\ ret[1].val[2].beta # zeros(n_target(1))

InSgdCall(p) ==
    /\ args[p].entry \in {"solve_dual_entropic", "sgd_entropic_regularization"}
    /\ pc[p] # "idle"

\* The batch size is within the input domain: batch_size <= min(ns, nt).
ValidBatch(p) ==
    args[p].batch_size <= n_source(p) /\ args[p].batch_size <= n_target(p)

\* The places of the loop of sgd_entropic_regularization.
SgdLoopPlaces ==
    {"sgd_loop", "sgd_choice_beta", "sgd_grad_alpha", "sgd_update_alpha",
     "sgd_grad_beta", "sgd_update_beta"}

\* The call of thread p is under way.
Running(p) == pc[p] \notin {"idle", "done"}

\* The counts of C4: in a loop the updates made so far are as many as the
\* iterations, never more than numItermax, and once the solver has returned
\* they are exactly numItermax.
C4_LoopCounts ==
    \A p \in Threads :
        LET A == args[p]
            f == loc[p]
            o == obs[p]
        IN  /\ pc[p] \in {"sag_loop", "asgd_loop"} =>
                /\ f.cur_iter <= A.numItermax
                /\ o.n_beta = f.cur_iter
                /\ Len(draws[p]) = f.cur_iter
            /\ (InSemiCall(p) /\ Len(trace[p]) >= 1) =>
                /\ o.n_beta = A.numItermax
                /\ Len(o.betas) = A.numItermax
                /\ Len(draws[p]) = A.numItermax
            /\ (InSgdCall(p) /\ ValidBatch(p)) =>
                /\ ret[p].kind # "ValueError"
                /\ pc[p] \in SgdLoopPlaces =>
                    /\ f.cur_iter <= A.numItermax
                    /\ o.n_beta = f.cur_iter
                    /\ o.n_alpha \in {f.cur_iter, f.cur_iter + 1}
                    /\ pc[p] = "sgd_loop" => o.n_alpha = f.cur_iter
                /\ (Len(trace[p]) >= 1 \/ pc[p] = "done") =>
                    /\ o.n_alpha = A.numItermax
                    /\ o.n_beta = A.numItermax
                    /\ Len(draws[p]) = 2 + 2 * A.numItermax

\* C4: for every numItermax >= 0 and all draws, the loops of SAG, ASGD and
\* dual SGD (alternating and joint) run exactly numItermax iterations and
\* then return: no step leaves a loop earlier, every call that is under way
\* comes to its return, and when the solver returns each dual variable has
\* been updated exactly numItermax times.  The dual solver is taken with
\* batch_size <= min(ns, nt).
C4_ExactlyNumItermaxIterations ==
    /\ []C4_LoopCounts
    /\ \A p \in Threads :
        (Running(p) /\ (InSgdCall(p) => ValidBatch(p)))
            ~> (pc[p] = "done" /\ ret[p].kind = "value")

\* C4 witness: the joint variant has returned after two iterations, and so
\* has SAG on another run; the state is that of the joint variant.
C4_Witness ==
    /\ args[1].entry = "sgd_entropic_regularization"
    /\ ~args[1].alternate
    /\ args[1].numItermax = 2
    /\ pc[1] = "done"
    /\ ret[1].kind = "value"
    /\ obs[1].n_alpha = 2 /\ obs[1].n_beta = 2

\* C5: in every iteration of sgd_entropic_regularization, with alternate the
\* update of alpha[batch_alpha] is applied before the beta-gradient is
\* computed, which is therefore taken at the updated alpha; without
\* alternate both gradients are taken at the alpha and beta the iteration
\* started with, and only then are the two updates applied.
C5_UpdateOrder ==
    \A p \in Threads :
        (InSgdCall(p) /\ pc[p] \in {"sgd_update_alpha", "sgd_grad_beta", "sgd_update_beta"}) =>
            LET A == args[p]
                f == loc[p]
                o == obs[p]
                step == sgd_step_size(A.lr[1], f.cur_iter)
                grad_alpha_pre ==
                    batch_grad_dual_alpha(A.M, A.reg, o.pre_alpha, o.pre_beta,
                        A.batch_size, f.batch_alpha, f.batch_beta)
                alpha_updated ==
                    fancy_add(o.pre_alpha, f.batch_alpha, step, grad_alpha_pre)
                grad_beta_at(alpha) ==
                    batch_grad_dual_beta(A.M, A.reg, alpha, o.pre_beta,
                        A.batch_size, f.batch_alpha, f.batch_beta)
            IN  /\ f.grad_F_alpha = grad_alpha_pre
                /\ f.cur_beta = o.pre_beta
                /\ IF A.alternate
                   THEN /\ pc[p] = "sgd_update_alpha" => f.cur_alpha = o.pre_alpha
                        /\ pc[p] = "sgd_grad_beta" => f.cur_alpha = alpha_updated
                        /\ pc[p] = "sgd_update_beta" =>
                            /\ f.cur_alpha = alpha_updated
                            /\ f.grad_F_beta = grad_beta_at(alpha_updated)
                   ELSE /\ pc[p] = "sgd_grad_beta" => f.cur_alpha = o.pre_alpha
                        /\ pc[p] = "sgd_update_alpha" =>
                            /\ f.cur_alpha = o.pre_alpha
                            /\ f.grad_F_beta = grad_beta_at(o.pre_alpha)
                        /\ pc[p] = "sgd_update_beta" =>
                            /\ f.cur_alpha = alpha_updated
                            /\ f.grad_F_beta = grad_beta_at(o.pre_alpha)

\* C5 witness: in the second iteration of the alternating variant the
\* beta-gradient has been computed, and it is not the gradient at the alpha
\* the iteration started with.
C5_Witness ==
    /\ InSgdCall(1)
    /\ args[1].alternate
    /\ pc[1] = "sgd_update_beta"
    /\ loc[1].cur_iter = 1
    /\ loc[1].cur_alpha # obs[1].pre_alpha
    /\ loc[1].grad_F_beta #
           batch_grad_dual_beta(args[1].M, args[1].reg, obs[1].pre_alpha,
               obs[1].pre_beta, args[1].batch_size, loc[1].batch_alpha,
               loc[1].batch_beta)

\* Thread p's call has returned a value.
HasResult(p) == pc[p] = "done" /\ ret[p].kind = "value"

\* A semi-dual call whose method names a solver and whose lr is None.
DefaultRateCall(p) ==
    /\ InSemiCall(p)
    /\ args[p].method \in SagSpellings \cup AsgdSpellings
    /\ args[p].lr = None

HasZeroEntry(v) == \E i \in DOMAIN v : v[i] = 0

\* C8 as claimed: with lr None and a zero entry in a, the default learning
\* rate 1/max(a/reg) of SAG and ASGD divides by zero.
C8_ZeroEntryDividesByZero ==
    \A p \in Threads :
        (DefaultRateCall(p) /\ HasZeroEntry(args[p].a)) => obs[p].div_by_zero

\* Every entry of the matrix T is nan.
AllNaN(T) == \A i \in DOMAIN T : \A j \in DOMAIN T[i] : IsNaN(T[i][j])

\* The plan a call returned, with or without the log.
ReturnedPlan(p) == IF args[p].log THEN ret[p].val[1] ELSE ret[p].val

\* C8 amended: with lr None, a zero entry in a does not make the default
\* learning rate divide by zero as long as a has a positive entry: the
\* divisor max(a/reg) is the largest entry of a over reg, not the zero one,
\* and the solver runs with the finite rate reg / max(a). The division by
\* zero happens exactly when every entry of a is zero: then lr is inf, and
\* the solver still makes its iterations and returns, a plan of nan after
\* one iteration or more.
C8_DefaultRateFinite ==
    \A p \in Threads :
        DefaultRateCall(p) =>
            LET positive == \E i \in DOMAIN args[p].a : args[p].a[i] > 0
            IN  /\ obs[p].div_by_zero <=> ~positive
                /\ pc[p] \in {"sag_loop", "asgd_loop"} =>
                    IF positive
                    THEN /\ loc[p].lr > 0
                         /\ ~IsInf(loc[p].lr)
                         /\ ~IsNaN(loc[p].lr)
                         /\ Abs(Mul(loc[p].lr, MaxOf(args[p].a)) - args[p].reg) <= 1
                    ELSE loc[p].lr = Inf
                /\ (~positive /\ HasResult(p) /\ args[p].numItermax >= 1) =>
                    /\ Len(draws[p]) = args[p].numItermax
                    /\ AllNaN(ReturnedPlan(p))

\* C8 witness: SAG has run an iteration at the default rate with a = (0, 1).
C8_Witness ==
    /\ DefaultRateCall(1)
    /\ HasZeroEntry(args[1].a)
    /\ pc[1] = "sag_loop"
    /\ loc[1].cur_iter >= 1
    /\ loc[1].lr = args[1].reg

\* The sum of the vectors of the sequence h, which have m entries.
SumOfVectors(h, m) ==
    [j \in 0 .. m - 1 |-> Sum([k \in 0 .. Len(h) - 1 |-> h[k + 1][j]])]

\* The rounding of the running average: each of the k averaging steps
\* rounds two products, and the error of a step is kept with weight
\* (1 - 1/k), which bounds the distance of k * ave_beta to the sum of the
\* iterates by k (k + 1) units.
AverageSlack(k) == k * (k + 1)

\* v is the mean of the vectors of the sequence h, up to the rounding.
IsMeanOf(v, h, m) ==
    \A j \in 0 .. m - 1 :
        Abs(Len(h) * v[j] - SumOfVectors(h, m)[j]) <= AverageSlack(Len(h))

\* C9: averaged_sgd_entropic_transport returns the average of the iterates,
\* not the last one: after k >= 1 iterations ave_beta is the arithmetic
\* mean of the k values cur_beta took at the end of the iterations 1..k,
\* whatever indices were sampled (up to the rounding of the averaging
\* products), and that is what is returned; with numItermax = 0 the zero
\* vector is returned.
C9_ReturnsIterateAverage ==
    \A p \in Threads :
        LET h == obs[p].betas
            m == n_target(p)
        IN  /\ pc[p] = "asgd_loop" =>
                /\ Len(h) = loc[p].cur_iter
                /\ loc[p].cur_iter = 0 => loc[p].ave_beta = zeros(m)
                /\ loc[p].cur_iter >= 1 =>
                    /\ h[Len(h)] = loc[p].cur_beta
                    /\ IsMeanOf(loc[p].ave_beta, h, m)
            /\ (InSemiCall(p) /\ args[p].method \in AsgdSpellings
                    /\ Len(trace[p]) >= 1) =>
                /\ Len(h) = args[p].numItermax
                /\ args[p].numItermax = 0 => trace[p][1].out = zeros(m)
                /\ args[p].numItermax >= 1 => IsMeanOf(trace[p][1].out, h, m)

\* C9 witness: ASGD has returned after two iterations a vector that is far
\* from its last iterate.
C9_Witness ==
    /\ InSemiCall(1)
    /\ args[1].method \in AsgdSpellings
    /\ Len(trace[1]) >= 1
    /\ Len(obs[1].betas) = 2
    /\ \E j \in 0 .. n_target(1) - 1 :
          Abs(trace[1][1].out[j] - obs[1].betas[2][j]) > 20 * AverageSlack(2)

\* s lists size pairwise distinct indices of 0 .. n-1.
IsBatch(s, n, size) ==
    /\ DOMAIN s = 0 .. size - 1
    /\ \A k \in DOMAIN s : s[k] \in 0 .. n - 1
    /\ \A k, m \in DOMAIN s : s[k] = s[m] => k = m
    /\ Cardinality({s[k] : k \in DOMAIN s}) = size

\* C10: in every iteration of sgd_entropic_regularization batch_alpha is
\* batch_size pairwise distinct indices of 0 .. ns-1 and batch_beta is
\* batch_size pairwise distinct indices of 0 .. nt-1, each its own draw of
\* the generator, and the update adds one increment, that of its place in
\* the batch, to each selected entry.
C10_BatchesWithoutReplacement ==
    \A p \in Threads :
        (InSgdCall(p) /\ pc[p] \in SgdLoopPlaces \ {"sgd_loop"}) =>
            LET A == args[p]
                f == loc[p]
                o == obs[p]
                d == draws[p]
                step == sgd_step_size(A.lr[1], f.cur_iter)
                alpha_done ==
                    \/ pc[p] = "sgd_update_beta"
                    \/ A.alternate /\ pc[p] = "sgd_grad_beta"
            IN  /\ IsBatch(f.batch_alpha, n_source(p), A.batch_size)
                /\ d[2 + 2 * f.cur_iter + 1].val = f.batch_alpha
                /\ pc[p] # "sgd_choice_beta" =>
                    /\ IsBatch(f.batch_beta, n_target(p), A.batch_size)
                    /\ d[2 + 2 * f.cur_iter + 2].val = f.batch_beta
                    /\ d[2 + 2 * f.cur_iter + 2].pos > d[2 + 2 * f.cur_iter + 1].pos
                /\ alpha_done =>
                    \A k \in DOMAIN f.batch_alpha :
                        f.cur_alpha[f.batch_alpha[k]]
                            = o.pre_alpha[f.batch_alpha[k]]
                                + Mul(step, f.grad_F_alpha[k])

\* C10 witness: in the second iteration two indices were drawn for each
\* batch, and the two batches differ.
C10_Witness ==
    /\ InSgdCall(1)
    /\ args[1].batch_size = 2
    /\ pc[1] = "sgd_update_beta"
    /\ loc[1].cur_iter = 1
    /\ loc[1].batch_alpha # loc[1].batch_beta
    /\ loc[1].batch_alpha[0] = 1

\* The values of the draws d, in the order they were received.
ValuesOf(d) == [k \in 1 .. Len(d) |-> d[k].val]

\* The locals of sag_entropic_transport after the iterations that sample
\* the rows vals, from the locals f.
RECURSIVE SagRun(_, _, _)
SagRun(f, A, vals) ==
    IF vals = <<>> THEN f
    ELSE SagRun(sag_step(f, A.a, A.b, A.M, A.reg, Head(vals)), A, Tail(vals))

RECURSIVE AsgdRun(_, _, _)
AsgdRun(f, A, vals) ==
    IF vals = <<>> THEN f
    ELSE AsgdRun(asgd_step(f, A.b, A.M, A.reg, Head(vals)), A, Tail(vals))

\* The dual variables after iteration cur_iter of the dual solver with the
\* batches ba and bb, from alpha and beta.
SgdIterate(A, alpha, beta, cur_iter, ba, bb) ==
    LET step == sgd_step_size(A.lr[1], cur_iter)
        ga == batch_grad_dual_alpha(A.M, A.reg, alpha, beta, A.batch_size, ba, bb)
        alpha1 == fancy_add(alpha, ba, step, ga)
        gb == batch_grad_dual_beta(A.M, A.reg,
                  IF A.alternate THEN alpha1 ELSE alpha, beta,
                  A.batch_size, ba, bb)
    IN  <<alpha1, fancy_add(beta, bb, step, gb)>>

RECURSIVE SgdRun(_, _, _, _)
SgdRun(A, ab, cur_iter, vals) ==
    IF Len(vals) < 2 THEN ab
    ELSE SgdRun(A, SgdIterate(A, ab[1], ab[2], cur_iter, vals[1], vals[2]),
             cur_iter + 1, Tail(Tail(vals)))

\* What a call with arguments A returns when the generator hands it the
\* values vals, computed from A and vals alone.
Outcome(A, vals) ==
    IF A.entry = "solve_semi_dual_entropic"
    THEN LET beta == IF Lower(A.method) = <<"s", "a", "g">>
                     THEN SagRun(sag_frame(A), A, vals).cur_beta
                     ELSE AsgdRun(asgd_frame(A), A, vals).ave_beta
             alpha == c_transform_entropic(A.b, A.M, A.reg, beta)
         IN  plan_result(A.log, plan(A.a, A.b, A.M, A.reg, alpha, beta),
                 alpha, beta)
    ELSE LET ab == SgdRun(A, <<vals[1], vals[2]>>, 0, Tail(Tail(vals)))
         IN  IF A.entry = "solve_dual_entropic"
             THEN plan_result(A.log, plan(A.a, A.b, A.M, A.reg, ab[1], ab[2]),
                      ab[1], ab[2])
             ELSE Returned(ab)

\* C6: the output of a solver is a function of its arguments and of the
\* values the generator handed it, and of nothing else: not of how many
\* draws were made before, nor of what an earlier call left behind. Two
\* runs with the same arguments and the same drawn values return the same.
C6_DeterministicGivenDraws ==
    \A p \in Threads :
        HasResult(p) => ret[p] = Outcome(args[p], ValuesOf(draws[p]))

\* C6 witness: a second call of SAG has returned after two iterations whose
\* draws were not the first of the generator.
C6_Witness ==
    /\ HasResult(1)
    /\ calls[1] = 2
    /\ Lower(args[1].method) = <<"s", "a", "g">>
    /\ Len(draws[1]) = 2
    /\ draws[1][1].pos > 0
    /\ draws[1][1].val # draws[1][2].val

\* What belongs to thread q's call.
Private(q) ==
    <<pc[q], args[q], loc[q], ret[q], calls[q], draws[q], trace[q], obs[q]>>

\* Every draw of the generator went to one call, at one place of its
\* sequence of draws.
DrawsPartitioned ==
    /\ \A p, q \in Threads :
        \A k \in 1 .. Len(draws[p]), m \in 1 .. Len(draws[q]) :
            draws[p][k].pos = draws[q][m].pos => (p = q /\ k = m)
    /\ \A p \in Threads :
        \A k \in 1 .. Len(draws[p]) : draws[p][k].pos \in 0 .. rng_pos - 1

\* A step changes what belongs to one call at most.
OneCallChanges ==
    \A q \in Threads :
        Private(q)' # Private(q) =>
            \A r \in Threads \ {q} : Private(r)' = Private(r)

\* C7: calls that run at the same time share the generator and nothing
\* else: a statement of one call changes the arrays of that call only,
\* every draw goes to one call, in the order of the interleaving, and what
\* a call returns is a function of its own arguments and of the draws it
\* happened to receive.
C7_OnlyGeneratorShared ==
    /\ [](DrawsPartitioned
            /\ \A p \in Threads :
                  HasResult(p) =>
                      ret[p] = Outcome(args[p], ValuesOf(draws[p])))
    /\ [][OneCallChanges]_vars

\* C7 witness: two calls of SAG have returned, and the draws of the
\* generator went to them in turn.
C7_Witness ==
    /\ HasResult(1)
    /\ HasResult(2)
    /\ Lower(args[1].method) = <<"s", "a", "g">>
    /\ Lower(args[2].method) = <<"s", "a", "g">>
    /\ draws[1][1].pos = 1
    /\ draws[1][2].pos = 3
    /\ draws[2][1].pos = 0
    /\ draws[2][2].pos = 2

\* The call of thread p has a batch size above min(ns, nt).
OversizedBatch(p) == InSgdCall(p) /\ ~ValidBatch(p)

\* C11: the dual solver does not check batch_size at entry. A call of
\* sgd_entropic_regularization or solve_dual_entropic with batch_size >
\* min(ns, nt) is accepted: it draws its two initial dual vectors and reaches
\* the loop with nothing raised; the ValueError comes from the first draw of
\* a batch, so only when numItermax >= 1, with both dual vectors drawn and
\* no update made; with numItermax = 0 the call returns them.
C11_BatchSizeNotCheckedAtEntry ==
    \A p \in Threads :
        OversizedBatch(p) =>
            /\ pc[p] \in {"sgd_randn_alpha", "sgd_randn_beta", "sgd_loop"} =>
                ret[p] = Pending
            /\ pc[p] = "sgd_loop" =>
                /\ Len(draws[p]) = 2
                /\ loc[p].cur_alpha = draws[p][1].val
                /\ loc[p].cur_beta = draws[p][2].val
            /\ ret[p].kind = "ValueError" =>
                /\ Len(draws[p]) = 2
                /\ args[p].numItermax >= 1
                /\ obs[p].n_alpha = 0
                /\ obs[p].n_beta = 0
            /\ (pc[p] \in {"done", "dual_plan"} /\ args[p].numItermax = 0) =>
                /\ ret[p].kind # "ValueError"
                /\ trace[p][1].out = <<draws[p][1].val, draws[p][2].val>>

\* C11 witness: solve_dual_entropic was called with batch_size 3 on a 2 x 2
\* cost matrix and raised after its dual variables were drawn.
C11_Witness ==
    /\ OversizedBatch(1)
    /\ args[1].entry = "solve_dual_entropic"
    /\ args[1].batch_size = 3
    /\ ret[1].kind = "ValueError"
    /\ Len(draws[1]) = 2
    /\ rng_pos = 2

\* The indices the batch s lists.
Selected(s) == {s[k] : k \in DOMAIN s}

\* x and y agree on every entry that s does not list.
SameOutside(x, y, s) ==
    /\ DOMAIN x = DOMAIN y
    /\ \A i \in DOMAIN x : i \notin Selected(s) => x[i] = y[i]

\* Since the start of the iteration under way (or just over), only entries
\* of the batches have changed.
IterationFrame(p) ==
    (InSgdCall(p) /\ pc[p] \in SgdLoopPlaces
        /\ (pc[p] # "sgd_loop" \/ loc[p].cur_iter >= 1)) =>
        /\ SameOutside(loc[p].cur_alpha, obs[p].pre_alpha, loc[p].batch_alpha)
        /\ IF pc[p] = "sgd_choice_beta"
           THEN loc[p].cur_beta = obs[p].pre_beta
           ELSE SameOutside(loc[p].cur_beta, obs[p].pre_beta, loc[p].batch_beta)

\* What each statement of a call of the dual solver leaves alone.
StatementFrame(p) ==
    (InSgdCall(p) /\ pc[p] # "done") =>
        /\ args'[p].M = args[p].M
        /\ args'[p].reg = args[p].reg
        /\ (pc[p] \in {"sgd_grad_alpha", "sgd_grad_beta"}
              \/ (pc[p] \in {"sgd_loop", "sgd_choice_beta"}
                    /\ pc'[p] \in SgdLoopPlaces)) =>
            /\ loc'[p].cur_alpha = loc[p].cur_alpha
            /\ loc'[p].cur_beta = loc[p].cur_beta
        /\ pc[p] = "sgd_update_alpha" =>
            /\ SameOutside(loc'[p].cur_alpha, loc[p].cur_alpha, loc[p].batch_alpha)
            /\ loc'[p].cur_beta = loc[p].cur_beta
        /\ pc[p] = "sgd_update_beta" =>
            /\ SameOutside(loc'[p].cur_beta, loc[p].cur_beta, loc[p].batch_beta)
            /\ loc'[p].cur_alpha = loc[p].cur_alpha

\* C12: an iteration of sgd_entropic_regularization changes only the
\* entries of alpha that batch_alpha lists and the entries of beta that
\* batch_beta lists; the other entries, M and reg stay as they were, and
\* the statements that compute grad_F_alpha and grad_F_beta change neither
\* alpha nor beta.
C12_IterationFrame ==
    /\ [](\A p \in Threads : IterationFrame(p))
    /\ [][\A p \in Threads : StatementFrame(p)]_vars

\* C12 witness: an iteration with batches of one index is over, and it
\* moved alpha and beta.
C12_Witness ==
    /\ InSgdCall(1)
    /\ args[1].batch_size = 1
    /\ pc[1] = "sgd_loop"
    /\ loc[1].cur_iter = 1
    /\ loc[1].cur_alpha # obs[1].pre_alpha
    /\ loc[1].cur_beta # obs[1].pre_beta
    /\ loc[1].batch_alpha[0] # loc[1].batch_beta[0]

\* The orchestrator of thread p has built its plan.
SemiPlanBuilt(p) ==
    /\ InSemiCall(p)
    /\ args[p].method \in SagSpellings \cup AsgdSpellings
    /\ Len(trace[p]) = 3

\* The largest distance of a row sum (column sum) of pi to its marginal.
RowGap(pi, a) == MaxOf([i \in DOMAIN pi |-> Abs(Sum(pi[i]) - a[i])])

ColumnGap(pi, b) ==
    MaxOf([j \in DOMAIN b |-> Abs(RowSum(pi, Size(b))[j] - b[j])])

\* The rounding of a row sum, in units of 1/Scale: the sum is exact in the
\* reals, and each of its entries carries the rounding of one logarithm,
\* of the exponentials and of the products that build it, two units an
\* entry.
RowSlack == 2 * Size(TargetWeights)

\* C13: the plan of solve_semi_dual_entropic has the row marginal a
\* whatever beta the solver returned, after any number of iterations, 0
\* included: with alpha = c_transform_entropic(b, M, reg, beta), row i of
\* pi sums to a[i], up to the rounding of the arithmetic; the column sums
\* are not bound to b.
C13_RowMarginalExact ==
    \A p \in Threads :
        SemiPlanBuilt(p) =>
            LET A == args[p]
                beta == trace[p][1].out
                alpha == trace[p][2].out
                pi == trace[p][3].out
            IN  /\ alpha = c_transform_entropic(A.b, A.M, A.reg, beta)
                /\ pi = plan(A.a, A.b, A.M, A.reg, alpha, beta)
                /\ RowGap(pi, A.a) <= RowSlack
                /\ \A i \in DOMAIN pi : A.a[i] = 0 => Sum(pi[i]) = 0

\* C13 witness: a plan was built from the beta of a solver that made no
\* iteration; its rows sum to a and its columns are far from b.
C13_Witness ==
    /\ SemiPlanBuilt(1)
    /\ args[1].numItermax = 0
    /\ RowGap(trace[1][3].out, args[1].a) <= RowSlack
    /\ ColumnGap(trace[1][3].out, args[1].b) > 10 * RowSlack

====
